---- MODULE Spec2Model ----
(***************************************************************************)
(* Model of the WebTorrent web application: the TorrentManager engine      *)
(* wrapper (torrentManager.js), the WebSocket server that drives it        *)
(* (server.js) and the torrent map kept by the browser client (app.js).    *)
(*                                                                         *)
(* One action is one run-to-completion block of JavaScript: an event       *)
(* handler up to its first await, or the continuation after an await.      *)
(* The WebTorrent library, the file system and the network are the         *)
(* environment: their events and outcomes are nondeterministic choices.    *)
(***************************************************************************)
EXTENDS Integers, Sequences, FiniteSets, TLC

(***************************************************************************)
(* Bounds of the model.                                                    *)
(***************************************************************************)
\* number of torrent ids generateTorrentId hands out in one run
MaxTorrents == 2
\* number of stopTorrent calls that may be awaiting torrent.destroy at once
MaxCalls == 2
\* distinct values Date.now() takes when a session directory is named
MaxClock == 1
\* largest number of pieces a torrent's metadata declares
MaxPieces == 2
\* number of HTTP responses that may be streaming at once
MaxStreams == 1
\* how many reconnect timers of the browser client are pending at one time
MaxTimers == 2
\* how many sockets the browser client has replaced whose close is to come
MaxReplaced == 2
\* how many messages the queue of the browser client holds
MaxQueue == 2

(***************************************************************************)
(* Program constants.                                                      *)
(***************************************************************************)
\* {40} in magnetRegex
HashLen == 40

Ids == 1..MaxTorrents
\* a missing / empty torrentId in a request (falsy in JavaScript)
NoId == 0
ReqIds == 0..(MaxTorrents + 1)

Clients == {"c1", "c2"}
\* a caller of the TorrentManager API that is not a WebSocket handler
Api == "api"

Names == {"a", "b"}
\* torrent.name before the metadata is known (undefined)
NoName == "undefined"

Times == 0..MaxClock
\* CONFIG.DOWNLOADS_DIR
DOWNLOADS_DIR == <<"downloads">>
\* path.join(CONFIG.TEMP_DIR, `session-${Date.now()}`)
SessionDir(ts) == <<"temp", ts>>
NoPath == <<>>

(***************************************************************************)
(* Magnet links.  A magnet link is a sequence of tokens: the scheme and    *)
(* xt prefix is one token, every other character is a token of its own,    *)
(* and an HTML entity is one token until decodeHtmlEntities replaces it.   *)
(***************************************************************************)
\* the characters of [a-fA-F0-9] that the offered links use
HexChars == {"a", "F", "9"}
PrefixLower == "magnet:?xt=urn:btih:"
PrefixUpper == "MAGNET:?XT=URN:BTIH:"
OtherPrefix == "magnet:?xt=urn:sha1:"

Rep(c, n) == [i \in 1..n |-> c]

\* the info-hash parts offered to start: short, exact, long, non-hex inside
HashBodies ==
    { Rep("a", HashLen - 1), Rep("a", HashLen), Rep("F", HashLen + 1),
      Rep("9", HashLen - 1) \o <<"g">>,
      <<"g">> \o Rep("a", HashLen - 1),
      Rep("a", HashLen) \o <<"g">> }
Tails == { <<>>, <<"&", "d", "n">>, <<"&amp;", "d", "n">> }

Magnets ==
    { <<>> } \cup
    { <<p>> \o b \o t : p \in {PrefixLower, PrefixUpper, OtherPrefix},
                        b \in HashBodies, t \in Tails } \cup
    { <<" ", PrefixLower>> \o Rep("a", HashLen) \o <<" ">> }

RECURSIVE TrimLeft(_)
TrimLeft(s) == IF s # <<>> /\ Head(s) = " " THEN TrimLeft(Tail(s)) ELSE s
RECURSIVE TrimRight(_)
TrimRight(s) ==
    IF s # <<>> /\ s[Len(s)] = " " THEN TrimRight(SubSeq(s, 1, Len(s) - 1)) ELSE s
\* String.prototype.trim
Trim(s) == TrimLeft(TrimRight(s))

\* decodeHtmlEntities: every entity token is replaced by its character
decodeHtmlEntities(text) ==
    [i \in 1..Len(text) |->
        CASE text[i] = "&amp;" -> "&"
          [] text[i] = "&lt;" -> "<"
          [] text[i] = "&gt;" -> ">"
          [] OTHER -> text[i]]

\* [a-fA-F0-9]
IsHex(c) == c \in HexChars

\* /^magnet:\?xt=urn:btih:[a-fA-F0-9]{40}/i .test(s): anchored at the start
\* only, case-insensitive, nothing is required of what follows the 40 digits
magnetRegexTest(s) ==
    /\ Len(s) >= 1 + HashLen
    /\ s[1] \in {PrefixLower, PrefixUpper}
    /\ \A i \in 2..(1 + HashLen) : IsHex(s[i])


\* a well-formed BitTorrent v1 magnet link (an 'info-hash magnet link' in the
\* words of the handler's error message): the xt value,
\* up to the next parameter, is exactly HashLen hexadecimal digits
RECURSIVE UpToAmp(_)
UpToAmp(s) == IF s = <<>> \/ Head(s) = "&" THEN <<>> ELSE <<Head(s)>> \o UpToAmp(Tail(s))
InfoHashOf(m) ==
    LET s == decodeHtmlEntities(Trim(m))
    IN IF s # <<>> /\ s[1] \in {PrefixLower, PrefixUpper} THEN UpToAmp(Tail(s)) ELSE <<>>
WellFormedHash(m) ==
    /\ Len(InfoHashOf(m)) = HashLen
    /\ \A i \in 1..HashLen : IsHex(InfoHashOf(m)[i])

(***************************************************************************)
(* State.                                                                  *)
(***************************************************************************)
VARIABLES
    nextId,          \* the next value generateTorrentId returns
    activeTorrents,  \* keys of TorrentManager.activeTorrents
    status,          \* torrentInfo.status of every torrentInfo ever built
    updateTimer,     \* torrentInfo.updateTimer is a live interval
    downloadPath,    \* torrentInfo.downloadPath
    torrent,         \* the WebTorrent torrent object: its phase, its name, the
                     \* number of its pieces and the pieces it has verified
    removeTimer,     \* the 2000 ms setTimeout of stopTorrent is pending
    disk,            \* the download entries that exist on disk
    calls,           \* stopTorrent calls awaiting the torrent.destroy callback
    clients,         \* the server's set of connected sockets
    streams,         \* the HTTP responses a file stream is piped into
    conn,            \* the server's side of every socket: its readyState, its
                     \* isAlive flag and its ping interval
    app,             \* the browser client (WebTorrentApp): its connection state
    net,             \* whether the server can be reached from the browser
    clock,           \* the update timers that have fired in the current second
    out              \* what the last step returned, called back and sent

vars == <<nextId, activeTorrents, status, updateTimer, downloadPath, torrent,
          removeTimer, disk, calls, clients, streams, conn, app, net, clock, out>>
\* the state of the TorrentManager, its store and the HTTP responses
engineVars == <<nextId, activeTorrents, status, updateTimer, downloadPath, torrent,
                removeTimer, disk, calls, streams>>
\* the state of the browser client and of the network it connects through
browserVars == <<app, net>>

\* the speeds and the peer count the engine reports when a tick reads them
EngineStats == { [downloadSpeed |-> 0, uploadSpeed |-> 0, numPeers |-> 0],
                 [downloadSpeed |-> 1, uploadSpeed |-> 1, numPeers |-> 1] }

NoStatus == [status |-> "none", progress |-> 0, downloadSpeed |-> 0,
             uploadSpeed |-> 0, peers |-> 0, downloaded |-> 0, error |-> "null"]
\* statusData of startTorrent
statusData == [status |-> "starting", progress |-> 0, downloadSpeed |-> 0,
               uploadSpeed |-> 0, peers |-> 0, downloaded |-> 0, error |-> "null"]
ErrMsg == "err.message"

\* the server's side of a socket: readyState and isAlive of the ws object and
\* whether its pingInterval is set; pinged: the last run of the interval sent
\* a ping, ponged: a pong has arrived since that run
Conn(readyState, isAlive, pingInterval, pinged, ponged) ==
    [readyState |-> readyState, isAlive |-> isAlive, pingInterval |-> pingInterval,
     pinged |-> pinged, ponged |-> ponged]
\* no socket
NoConn == Conn("none", FALSE, FALSE, FALSE, FALSE)

\* WebTorrentApp: ws is the readyState of this.ws ("null" before the first
\* socket), timers the number of pending setTimeout callbacks of
\* scheduleReconnect, delay the delay of the last one, replaced the number of
\* sockets connectWebSocket has closed whose close event is still to come,
\* checking whether the interval of checkConnection is set, pendingMessages
\* the queue of sendMessage, flushing whether the onopen handler is inside
\* the loop of sendPendingMessages, torrents the keys of this.torrents, and
\* refresh the whole seconds since this.refreshInterval was set (NoTimer when
\* it is null)
NoTimer == -1
NoApp == [started |-> FALSE, ws |-> "null", isConnected |-> FALSE,
          reconnectAttempts |-> 0, timers |-> 0, delay |-> 0, replaced |-> 0,
          checking |-> FALSE, pendingMessages |-> <<>>, flushing |-> FALSE,
          torrents |-> {}, refresh |-> NoTimer]

\* time is counted in whole seconds, the period of the update timers
\* (this.updateInterval = 1000): fired holds the torrents whose update timer
\* has fired since the second began
NoClock == [fired |-> {}]

\* a message of the server: to one socket or to "all" connected sockets
Msg(to, type, id, st) == [to |-> to, type |-> type, id |-> id, st |-> st]
\* what the last step did: op and id name the handler or event and the torrent
\* id it was given; ret is what the TorrentManager method returned or threw;
\* cb lists the onUpdate invocations and sent the messages of that step; http
\* is the HTTP request the step handled, if it handled one, with the head of
\* the response it wrote
\* req.headers.range: absent, or bytes=start-end, or bytes=start- (end = Open)
Open == -1
NoRange == [present |-> FALSE, start |-> 0, end |-> Open]
Http(fileIndex, range, head) == [fileIndex |-> fileIndex, range |-> range, head |-> head]
NoHead == [code |-> 0, contentLength |-> 0, contentRange |-> <<>>]
NoHttp == Http("", NoRange, NoHead)
\* rcpt the sockets a broadcast of the step was sent to, threw whether the
\* onUpdate callback threw when the step invoked it, and wire the messages
\* the browser client passed to ws.send in the step, in order
NoOut == [op |-> "init", id |-> NoId, ret |-> "none", cb |-> <<>>, sent |-> <<>>,
          http |-> NoHttp, rcpt |-> {}, threw |-> FALSE, wire |-> <<>>]

\* a broadcast that sends to every socket of the client set
broadcastToClients_all == clients
\* broadcastToClients: client.send for the sockets of the set whose readyState
\* is WebSocket.OPEN
broadcastToClients == { c \in clients : conn[c].readyState = "open" }

Out(op, id, ret, cb, sent) ==
    [op |-> op, id |-> id, ret |-> ret, cb |-> cb, sent |-> sent, http |-> NoHttp,
     rcpt |-> IF \E i \in 1..Len(sent) : sent[i].to = "all"
              THEN broadcastToClients ELSE {},
     threw |-> FALSE, wire |-> <<>>]

Init ==
    /\ nextId = 1
    /\ activeTorrents = {}
    /\ status = [t \in Ids |-> NoStatus]
    /\ updateTimer = [t \in Ids |-> FALSE]
    /\ downloadPath = [t \in Ids |-> NoPath]
    /\ torrent = [t \in Ids |-> [phase |-> "none", name |-> NoName,
                                  pieces |-> 0, have |-> {}]]
    /\ removeTimer = [t \in Ids |-> FALSE]
    /\ disk = {}
    /\ calls = {}
    /\ clients = {}
    /\ streams = {}
    /\ conn = [c \in Clients |-> NoConn]
    /\ app = NoApp
    /\ net = [reachable |-> TRUE]
    /\ clock = NoClock
    /\ out = NoOut

(***************************************************************************)
(* The browser client's handlers for the messages the server sends.  The   *)
(* client's map this.torrents is a set of torrent ids.                     *)
(***************************************************************************)
\* handleTorrentUpdate: an unknown torrentId creates a new entry
handleTorrentUpdate(torrents, torrentId) ==
    IF torrentId = NoId THEN torrents ELSE torrents \cup {torrentId}
\* handleTorrentRemoved
handleTorrentRemoved(torrents, torrentId) == torrents \ {torrentId}
\* handleInitialTorrents: clear the map, then add every listed torrent
handleInitialTorrents(torrents, list) == list

\* the named cases of the client's dispatcher
ClientCases == {"torrent-list", "torrent-added", "torrent-update", "torrent-completed",
                "torrent-stopped", "torrent-removed", "initial-torrents", "log", "error"}
\* the message types the client sends
ClientSends == {"get-torrents", "start-torrent", "stop-torrent", "remove-torrent"}
\* the named cases of the server's dispatcher
ServerCases == {"get-torrents", "start-torrent", "stop-torrent", "delete-torrent",
                "remove-torrent", "get-files", "ping"}

\* the client's dispatcher handleWebSocketMessage on one message
clientOnMessage(torrents, m, list) ==
    CASE m.type = "torrent-update" -> handleTorrentUpdate(torrents, m.id)
      [] m.type = "torrent-removed" -> handleTorrentRemoved(torrents, m.id)
      [] m.type = "initial-torrents" -> handleInitialTorrents(torrents, list)
      [] OTHER -> torrents

RECURSIVE Deliver(_, _, _, _, _)
\* the map of client c after it has handled, in order, those of the messages
\* msgs that reach it; cl is the set of open sockets, list is getAllTorrents
Deliver(torrents, c, cl, msgs, list) ==
    IF msgs = <<>> THEN torrents
    ELSE LET m == Head(msgs)
             got == (m.to = "all" /\ c \in cl) \/ m.to = c
         IN Deliver(IF got THEN clientOnMessage(torrents, m, list) ELSE torrents,
                    c, cl, Tail(msgs), list)

\* TorrentManager.broadcastUpdate: onUpdate is invoked with the id and the
\* status object
Callback(torrentId, st) == <<<<torrentId, st>>>>
\* torrentManager.onUpdate as the server sets it: one torrent-update broadcast
onUpdate(torrentId, st) == <<Msg("all", "torrent-update", torrentId, st)>>

(***************************************************************************)
(* TorrentManager: the pieces of its methods.                              *)
(***************************************************************************)
\* a clearInterval that leaves the timer running
clearInterval_none(timers, torrentId) == timers

\* a clearInterval that clears the timer of every torrent
clearInterval_all(timers, torrentId) == [t \in DOMAIN timers |-> FALSE]

\* clearInterval(torrentInfo.updateTimer); torrentInfo.updateTimer = null
clearInterval(timers, torrentId) == [timers EXCEPT ![torrentId] = FALSE]

\* the entry path.join(downloadPath, torrent.name) under which the engine
\* stores the files of a torrent
StorePath(path, name) == <<path, name>>

\* a stopTorrent that asks the engine to delete the store
destroyStore_true == TRUE

\* the destroyStore option stopTorrent passes to torrent.destroy
destroyStore == FALSE

\* torrent.destroy(opts): the engine deletes the store only when asked to
torrentDestroy(d, torrentId, opts) ==
    IF opts THEN d \ {StorePath(downloadPath[torrentId], torrent[torrentId].name)}
    ELSE d

\* the final status stopTorrent writes once the torrent is destroyed
StoppedStatus(s) ==
    [s EXCEPT !.status = "stopped", !.downloadSpeed = 0, !.uploadSpeed = 0,
              !.peers = 0]

\* an 'error' listener that does not record the message
ErrorStatus_noMessage(s, message) == [s EXCEPT !.status = "error"]

\* a 'done' listener that leaves the progress as the last tick computed it
CompletedStatus_keepProgress(s) == [s EXCEPT !.status = "completed"]

\* the status the 'done' listener writes
CompletedStatus(s) == [s EXCEPT !.status = "completed", !.progress = 100]

\* the status the 'error' listener writes
ErrorStatus(s, message) == [s EXCEPT !.status = "error", !.error = message]

\* fs.rmSync(fullPath, {recursive: true, force: true}) when it succeeds
rmSync(d, fullPath) == d \ {fullPath}

Call(kind, by, id, deleteFiles, name) ==
    [kind |-> kind, by |-> by, id |-> id, deleteFiles |-> deleteFiles, name |-> name]

\* stopTorrent from its not-found check to the await of torrent.destroy
StopBegin(torrentId, call) ==
    /\ torrentId \in activeTorrents
    /\ call \notin calls
    /\ Cardinality(calls) < MaxCalls
    /\ status' = [status EXCEPT ![torrentId].status = "stopping"]
    /\ updateTimer' = clearInterval(updateTimer, torrentId)
    /\ torrent' = [torrent EXCEPT ![torrentId].phase = "destroyed"]
    /\ disk' = torrentDestroy(disk, torrentId, destroyStore)
    /\ calls' = calls \cup {call}
    /\ UNCHANGED <<nextId, activeTorrents, downloadPath, removeTimer, clients>>

(***************************************************************************)
(* start-torrent.  A client's message runs handleStartTorrent, which       *)
(* validates the magnet link and calls TorrentManager.startTorrent; any    *)
(* other caller (by = Api) calls startTorrent directly.                    *)
(***************************************************************************)
\* what handleStartTorrent decides about a magnet link before it calls the
\* manager, next to whether the link's info-hash is well formed
validateMagnet(magnet) ==
    [accepted |-> magnet # <<>> /\ magnetRegexTest(decodeHtmlEntities(Trim(magnet))),
     wellFormed |-> WellFormedHash(magnet)]
\* the validation outcomes the magnet links of Magnets produce
StartInputs == { validateMagnet(m) : m \in Magnets }

\* a rejection that also broadcasts a torrent-update
startRejected_broadcasts(by) ==
    Out("start", NoId, "InvalidInput", <<>>,
        <<Msg(by, "error", NoId, ""), Msg("all", "torrent-update", NoId, "error")>>)
\* the catch block of handleStartTorrent: an error message to the requester
startRejected(by) ==
    Out("start", NoId, "InvalidInput", <<>>, <<Msg(by, "error", NoId, "")>>)

StartRequest(by, in, fresh, ts) ==
    /\ UNCHANGED <<streams, conn, app, net, clock>>
    /\ by \in clients \cup {Api}
    /\ LET torrentId == nextId
           path == IF fresh THEN SessionDir(ts) ELSE DOWNLOADS_DIR
       IN IF by # Api /\ ~in.accepted
          THEN /\ out' = startRejected(by)
               /\ UNCHANGED <<nextId, activeTorrents, status, updateTimer,
                              downloadPath, torrent, removeTimer, disk, calls, clients>>
          ELSE /\ nextId \in Ids
               /\ nextId' = nextId + 1
               /\ status' = [status EXCEPT ![torrentId] = statusData]
               /\ torrent' = [torrent EXCEPT ![torrentId].phase = "added"]
               /\ downloadPath' = [downloadPath EXCEPT ![torrentId] = path]
               /\ activeTorrents' = activeTorrents \cup {torrentId}
               /\ updateTimer' = [updateTimer EXCEPT ![torrentId] = TRUE]
               /\ out' = Out("start", torrentId, "started", <<>>,
                             IF by = Api THEN <<>>
                             ELSE <<Msg(by, "torrent-started", torrentId, "started"),
                                    Msg("all", "torrent-update", torrentId,
                                        status'[torrentId].status)>>)
               /\ UNCHANGED <<removeTimer, disk, calls, clients>>

\* torrent.infoHash as the engine reports it: HashLen hexadecimal digits
\* without a scheme
EngineInfoHash == Rep("a", HashLen)
\* the entry the client holds for a torrent: the status object of the server,
\* which has no magnet field; its infoHash is null until the metadata
\* listener has written it
clientEntry(torrentId) ==
    [magnet |-> <<>>,
     infoHash |-> IF torrent[torrentId].name # NoName THEN EngineInfoHash ELSE <<>>]
\* the magnet field of the start-torrent message of the client's
\* startTorrent(torrentId): torrent.magnet || torrent.infoHash
startMagnet(entry) == IF entry.magnet # <<>> THEN entry.magnet ELSE entry.infoHash

\* the client's Start action on a torrent it lists, with the server's
\* handleStartTorrent for the message it sends
ClientStartTorrent(c, torrentId) ==
    /\ torrentId \in activeTorrents
    /\ conn[c].readyState = "open"
    /\ StartRequest(c, validateMagnet(startMagnet(clientEntry(torrentId))), FALSE, 0)

(***************************************************************************)
(* stop-torrent: handleStopTorrent and TorrentManager.stopTorrent for a    *)
(* client, stopTorrent alone for another caller.                           *)
(***************************************************************************)
\* a stop request whose torrentId is not in the registry, silently ignored
stopNotFound_silent(by, torrentId) == Out("stop", torrentId, "none", <<>>, <<>>)

\* a stop request whose torrentId is not in the registry: stopTorrent throws
\* 'not found' to its caller; handleStopTorrent, whose getTorrent returned
\* null, throws to its own catch block, which broadcasts an 'error' status
\* for the torrentId and then answers the requester
stopNotFound(by, torrentId) ==
    Out("stop", torrentId, IF by = Api THEN "NotFound" ELSE "none", <<>>,
        IF by = Api THEN <<>>
        ELSE <<Msg("all", "torrent-update", torrentId, "error"),
               Msg(by, "error", torrentId, "")>>)

\* a handler that announces the stop with the status the torrent has
stoppingUpdate_current(by, torrentId) ==
    IF by = Api THEN <<>>
    ELSE <<Msg("all", "torrent-update", torrentId, status[torrentId].status)>>

\* handleStopTorrent before it calls stopTorrent: the stoppingUpdate it
\* broadcasts, the status of the torrent overwritten with 'stopping'
stoppingUpdate(by, torrentId) ==
    IF by = Api THEN <<>>
    ELSE <<Msg("all", "torrent-update", torrentId, "stopping")>>

StopRequest(by, torrentId) ==
    /\ UNCHANGED <<streams, conn, app, net, clock>>
    /\ by \in clients \cup {Api}
    /\ IF by # Api /\ torrentId = NoId
       THEN \* 'Torrent ID is required': the catch block has no id to broadcast
            /\ out' = Out("stop", torrentId, "none", <<>>,
                          <<Msg(by, "error", NoId, "")>>)
            /\ UNCHANGED <<nextId, activeTorrents, status, updateTimer, downloadPath,
                           torrent, removeTimer, disk, calls, clients>>
       ELSE IF torrentId \notin activeTorrents
       THEN /\ out' = stopNotFound(by, torrentId)
            /\ UNCHANGED <<nextId, activeTorrents, status, updateTimer, downloadPath,
                           torrent, removeTimer, disk, calls, clients>>
       ELSE /\ StopBegin(torrentId, Call("stop", by, torrentId, FALSE, NoName))
            /\ out' = Out("stop", torrentId, "pending",
                          Callback(torrentId, status'[torrentId].status),
                          stoppingUpdate(by, torrentId)
                          \o onUpdate(torrentId, status'[torrentId].status))

(***************************************************************************)
(* delete-torrent: handleDeleteTorrent and TorrentManager.deleteTorrent.   *)
(***************************************************************************)
DeleteRequest(by, torrentId, deleteFiles) ==
    /\ UNCHANGED <<streams, conn, app, net, clock>>
    /\ by \in clients \cup {Api}
    /\ IF torrentId \notin activeTorrents
       THEN /\ out' = Out("delete", torrentId,
                          IF by # Api /\ torrentId = NoId THEN "none" ELSE "NotFound",
                          <<>>,
                          IF by = Api THEN <<>> ELSE <<Msg(by, "error", torrentId, "")>>)
            /\ UNCHANGED <<nextId, activeTorrents, status, updateTimer, downloadPath,
                           torrent, removeTimer, disk, calls, clients>>
       ELSE /\ StopBegin(torrentId, Call("delete", by, torrentId, deleteFiles,
                                         torrent[torrentId].name))
            /\ out' = Out("delete", torrentId, "pending",
                          Callback(torrentId, status'[torrentId].status),
                          onUpdate(torrentId, status'[torrentId].status))

(***************************************************************************)
(* The callback of torrent.destroy resumes a stopTorrent call: with an     *)
(* error the call throws, without one it finishes, and the deleteTorrent   *)
(* or the handler that awaited it runs on.  rmThrows: fs.rmSync fails.     *)
(***************************************************************************)
DoneOp(kind) == IF kind = "stop" THEN "stop-done" ELSE "delete-done"

DestroyDone(call, err, rmThrows) ==
    LET torrentId == call.id
        by == call.by
        fullPath == StorePath(downloadPath[torrentId], call.name)
        removes == /\ call.kind = "delete"
                   /\ call.deleteFiles
                   /\ downloadPath[torrentId] # NoPath
                   /\ call.name # NoName
                   /\ fullPath \in disk
                   /\ ~rmThrows
    IN
    /\ UNCHANGED <<streams, conn, app, net, clock>>
    /\ call \in calls
    /\ calls' = calls \ {call}
    /\ IF err
       THEN /\ out' = Out(DoneOp(call.kind), torrentId, "DestroyError", <<>>,
                          IF by = Api THEN <<>>
                          ELSE IF call.kind = "stop"
                          THEN <<Msg("all", "torrent-update", torrentId, "error"),
                                 Msg(by, "error", torrentId, "")>>
                          ELSE <<Msg(by, "error", torrentId, "")>>)
            /\ UNCHANGED <<status, removeTimer, disk>>
       ELSE /\ status' = [status EXCEPT ![torrentId] = StoppedStatus(@)]
            /\ removeTimer' = [removeTimer EXCEPT ![torrentId] = TRUE]
            /\ disk' = IF removes THEN rmSync(disk, fullPath) ELSE disk
            /\ out' = Out(DoneOp(call.kind), torrentId,
                          IF call.kind = "stop" THEN "stopped"
                          ELSE IF call.deleteFiles THEN "deleted-files" ELSE "deleted",
                          Callback(torrentId, status'[torrentId].status),
                          onUpdate(torrentId, status'[torrentId].status) \o
                          (IF by = Api THEN <<>>
                           ELSE IF call.kind = "stop"
                           THEN <<Msg(by, "torrent-stopped", torrentId, "stopped"),
                                  Msg("all", "torrent-update", torrentId, "stopped")>>
                           ELSE <<Msg(by, "torrent-deleted", torrentId, ""),
                                  Msg("all", "torrent-removed", torrentId, "")>>))
    /\ UNCHANGED <<nextId, activeTorrents, updateTimer, downloadPath, torrent, clients>>

\* the setTimeout of stopTorrent fires: the torrent leaves the registry
RemoveTimeout(torrentId) ==
    /\ UNCHANGED <<streams, conn, app, net, clock>>
    /\ removeTimer[torrentId]
    /\ removeTimer' = [removeTimer EXCEPT ![torrentId] = FALSE]
    /\ activeTorrents' = activeTorrents \ {torrentId}
    /\ out' = Out("timeout", torrentId, "none", <<>>, <<>>)
    /\ UNCHANGED <<nextId, status, updateTimer, downloadPath, torrent, disk, calls,
                   clients>>

(***************************************************************************)
(* Events of the WebTorrent engine on a torrent that is not destroyed, and *)
(* the listeners setupTorrentListeners registered for them.                *)
(***************************************************************************)
Alive(torrentId) == torrent[torrentId].phase \in {"added", "meta", "full", "done"}

\* a broadcastUpdate without its try block: what onUpdate throws reaches the
\* caller
broadcastUpdate_noCatch(throws) == throws
\* broadcastUpdate: whether the call throws when onUpdate does; the catch
\* block logs the error
broadcastUpdate(throws) == FALSE

\* what a listener reports: the status as it has just written it
EventOut(op, torrentId, throws) ==
    [Out(op, torrentId, "none",
         Callback(torrentId, status'[torrentId].status),
         IF throws THEN <<>> ELSE onUpdate(torrentId, status'[torrentId].status))
     EXCEPT !.threw = throws]

\* a listener that reports the status before it writes it
Event_stale(op, torrentId) ==
    out' = Out(op, torrentId, "none",
               Callback(torrentId, status[torrentId].status),
               onUpdate(torrentId, status[torrentId].status))

\* a listener reports the status as it has just written it, to a callback
\* that returns
Event(op, torrentId) == out' = EventOut(op, torrentId, FALSE)

\* torrent.on('metadata')
Metadata(torrentId, name, n) ==
    /\ UNCHANGED <<streams, conn, app, net, clock>>
    /\ torrent[torrentId].phase = "added"
    /\ torrent' = [torrent EXCEPT ![torrentId] =
                     [phase |-> "meta", name |-> name, pieces |-> n, have |-> {}]]
    /\ status' = [status EXCEPT ![torrentId].status = "downloading"]
    /\ Event("metadata", torrentId)
    /\ UNCHANGED <<nextId, activeTorrents, updateTimer, downloadPath, removeTimer,
                   disk, calls, clients>>

\* torrent.on('ready'): canStream, which no other code reads, is set and the
\* status is reported
Ready(torrentId) ==
    /\ UNCHANGED <<streams, conn, app, net, clock>>
    /\ torrent[torrentId].phase \in {"meta", "full", "done"}
    /\ UNCHANGED <<nextId, activeTorrents, status, updateTimer, downloadPath, torrent,
                   removeTimer, disk, calls, clients>>
    /\ Event("ready", torrentId)

\* a 'download' listener that pushes a status update for every block
DownloadReport_pushes(torrentId) ==
    Out("download", torrentId, "none", Callback(torrentId, status[torrentId].status),
        onUpdate(torrentId, status[torrentId].status))

\* what the manager does when the engine has downloaded a block: nothing,
\* setupTorrentListeners registers no listener for 'download'
DownloadReport(torrentId) == Out("download", torrentId, "none", <<>>, <<>>)

\* the engine verifies piece p and writes it to the store; the download is
\* complete with the last missing piece.  The manager has no listener for
\* the engine's 'download' event
Download(torrentId, p) ==
    /\ UNCHANGED <<streams, conn, app, net, clock>>
    /\ torrent[torrentId].phase = "meta"
    /\ p \in 1..torrent[torrentId].pieces
    /\ p \notin torrent[torrentId].have
    /\ disk' = disk \cup {StorePath(downloadPath[torrentId], torrent[torrentId].name)}
    /\ torrent' = [torrent EXCEPT
                     ![torrentId].have = @ \cup {p},
                     ![torrentId].phase =
                        IF torrent[torrentId].have \cup {p} = 1..torrent[torrentId].pieces
                        THEN "full" ELSE "meta"]
    /\ out' = DownloadReport(torrentId)
    /\ UNCHANGED <<nextId, activeTorrents, status, updateTimer, downloadPath,
                   removeTimer, calls, clients>>

\* torrent.on('done'), with an onUpdate that throws when throws is true: the
\* statements after broadcastUpdate run unless the call throws
DoneCb(torrentId, throws) ==
    /\ UNCHANGED <<streams, conn, app, net, clock>>
    /\ torrent[torrentId].phase = "full"
    /\ torrent' = [torrent EXCEPT ![torrentId].phase = "done"]
    /\ status' = [status EXCEPT ![torrentId] = CompletedStatus(@)]
    /\ updateTimer' = IF broadcastUpdate(throws) THEN updateTimer
                      ELSE clearInterval(updateTimer, torrentId)
    /\ out' = EventOut("done", torrentId, throws)
    /\ UNCHANGED <<nextId, activeTorrents, downloadPath, removeTimer, disk, calls,
                   clients>>

\* torrent.on('done') with a callback that returns
Done(torrentId) == DoneCb(torrentId, FALSE)

\* torrent.on('error'), with an onUpdate that throws when throws is true; the
\* engine emits 'error' for a fatal error only, when it has destroyed the
\* torrent, which emits no event afterwards
ErrorCb(torrentId, throws) ==
    /\ UNCHANGED <<streams, conn, app, net, clock>>
    /\ Alive(torrentId)
    /\ torrent' = [torrent EXCEPT ![torrentId].phase = "destroyed"]
    /\ status' = [status EXCEPT ![torrentId] = ErrorStatus(@, ErrMsg)]
    /\ updateTimer' = IF broadcastUpdate(throws) THEN updateTimer
                      ELSE clearInterval(updateTimer, torrentId)
    /\ out' = EventOut("error", torrentId, throws)
    /\ UNCHANGED <<nextId, activeTorrents, downloadPath, removeTimer, disk,
                   calls, clients>>

\* an 'error' listener that leaves the update timer running
Error_keepsTimer(torrentId) ==
    /\ UNCHANGED <<streams, updateTimer, conn, app, net, clock>>
    /\ Alive(torrentId)
    /\ torrent' = [torrent EXCEPT ![torrentId].phase = "destroyed"]
    /\ status' = [status EXCEPT ![torrentId] = ErrorStatus(@, ErrMsg)]
    /\ Event("error", torrentId)
    /\ UNCHANGED <<nextId, activeTorrents, downloadPath, removeTimer, disk,
                   calls, clients>>

\* torrent.on('error') with a callback that returns
Error(torrentId) == ErrorCb(torrentId, FALSE)

\* torrent.on('wire') and torrent.on('warning'): the listeners only log
Wire(torrentId) ==
    /\ UNCHANGED <<streams, conn, app, net, clock>>
    /\ Alive(torrentId)
    /\ out' = Out("wire", torrentId, "none", <<>>, <<>>)
    /\ UNCHANGED <<nextId, activeTorrents, status, updateTimer, downloadPath, torrent,
                   removeTimer, disk, calls, clients>>

\* a 'warning' listener that treats the warning as an error
Warning_asError(torrentId) == Error(torrentId)

\* torrent.on('warning'): the listener only logs
Warning(torrentId) ==
    /\ UNCHANGED <<streams, conn, app, net, clock>>
    /\ Alive(torrentId)
    /\ out' = Out("warning", torrentId, "none", <<>>, <<>>)
    /\ UNCHANGED <<nextId, activeTorrents, status, updateTimer, downloadPath, torrent,
                   removeTimer, disk, calls, clients>>

\* torrent.downloaded: the length of the verified pieces, every piece being
\* of length 1
torrentDownloaded(torrentId) == Cardinality(torrent[torrentId].have)
\* torrent.progress * 100: 0 as long as the metadata is not known
torrentProgress(torrentId) ==
    IF torrent[torrentId].pieces = 0 THEN 0
    ELSE (torrentDownloaded(torrentId) * 100) \div torrent[torrentId].pieces

\* updateTorrentStatus as the setInterval callback calls it
updateTorrentStatus(torrentId, stats) ==
    /\ UNCHANGED <<streams, conn, app, net>>
    /\ updateTimer[torrentId]
    /\ status' = [status EXCEPT ![torrentId] =
                    [@ EXCEPT !.progress = torrentProgress(torrentId),
                              !.downloadSpeed = stats.downloadSpeed,
                              !.uploadSpeed = stats.uploadSpeed,
                              !.downloaded = torrentDownloaded(torrentId),
                              !.peers = stats.numPeers,
                              !.status = IF torrentProgress(torrentId) >= 100
                                         THEN "seeding" ELSE @]]
    /\ Event("tick", torrentId)
    /\ UNCHANGED <<nextId, activeTorrents, updateTimer, downloadPath, torrent,
                   removeTimer, disk, calls, clients>>

\* the setInterval callback of a torrent's update timer, at any time
Tick(torrentId, stats) ==
    /\ updateTorrentStatus(torrentId, stats)
    /\ UNCHANGED clock

\* the setInterval callback of a torrent's update timer where the seconds
\* are counted: it fires once in a second
TickAt(torrentId, stats) ==
    /\ torrentId \notin clock.fired
    /\ updateTorrentStatus(torrentId, stats)
    /\ clock' = [clock EXCEPT !.fired = @ \cup {torrentId}]

(***************************************************************************)
(* The WebSocket server.                                                   *)
(***************************************************************************)
\* wss.on('connection'): the welcome message and the current torrents
WsConnect(c) ==
    /\ UNCHANGED <<streams, app, net, clock>>
    /\ c \notin clients
    /\ conn[c] = NoConn
    /\ clients' = clients \cup {c}
    /\ conn' = [conn EXCEPT ![c] = Conn("open", TRUE, TRUE, FALSE, FALSE)]
    /\ out' = Out("connect", NoId, "none", <<>>,
                  <<Msg(c, "connection", NoId, ""), Msg(c, "initial-torrents", NoId, "")>>)
    /\ UNCHANGED <<nextId, activeTorrents, status, updateTimer, downloadPath, torrent,
                   removeTimer, disk, calls>>

\* close and error handlers that leave the ping interval of the socket set
clearPing_keepsTimer(c) == Conn("none", FALSE, TRUE, FALSE, FALSE)
\* clearInterval(pingInterval) of the close and error handlers; the socket is
\* closed and, once deleted from the set, referenced by nothing
clearPing(c) == NoConn

\* a close handler that also drops the torrents once no client is left
WsClose_dropTorrents(c) ==
    /\ UNCHANGED <<streams, app, net, clock>>
    /\ c \in clients
    /\ clients' = clients \ {c}
    /\ conn' = [conn EXCEPT ![c] = NoConn]
    /\ activeTorrents' = IF clients' = {} THEN {} ELSE activeTorrents
    /\ out' = Out("close", NoId, "none", <<>>, <<>>)
    /\ UNCHANGED <<nextId, status, updateTimer, downloadPath, torrent,
                   removeTimer, disk, calls>>

\* ws.on('close')
WsClose(c) ==
    /\ UNCHANGED <<streams, app, net, clock>>
    /\ c \in clients
    /\ clients' = clients \ {c}
    /\ conn' = [conn EXCEPT ![c] = clearPing(c)]
    /\ out' = Out("close", NoId, "none", <<>>, <<>>)
    /\ UNCHANGED <<nextId, activeTorrents, status, updateTimer, downloadPath, torrent,
                   removeTimer, disk, calls>>

\* ws.on('error')
WsError(c) ==
    /\ UNCHANGED <<streams, app, net, clock>>
    /\ c \in clients
    /\ clients' = clients \ {c}
    /\ conn' = [conn EXCEPT ![c] = clearPing(c)]
    /\ out' = Out("wserror", NoId, "none", <<>>, <<>>)
    /\ UNCHANGED <<nextId, activeTorrents, status, updateTimer, downloadPath, torrent,
                   removeTimer, disk, calls>>

\* a pong handler that does not mark the socket alive
pongAlive_ignored(c) == conn[c].isAlive
\* ws.on('pong'): ws.isAlive = true
pongAlive(c) == TRUE

\* a pong frame of the peer arrives
Pong(c) ==
    /\ conn[c].readyState = "open"
    /\ conn' = [conn EXCEPT ![c].isAlive = pongAlive(c), ![c].ponged = TRUE]
    /\ out' = Out("pong", NoId, "none", <<>>, <<>>)
    /\ UNCHANGED <<engineVars, clients, browserVars, clock>>

\* the setInterval callback of the connection handler, every 30000 ms: a
\* socket that is not alive is terminated, which leaves it closing until its
\* close event; otherwise it is marked not alive and pinged
PingTick(c) ==
    /\ conn[c].pingInterval
    /\ IF conn[c].isAlive = FALSE
       THEN /\ conn' = [conn EXCEPT ![c].readyState =
                                        IF @ = "open" THEN "closing" ELSE @]
            /\ out' = Out("ping-tick", NoId, "terminated", <<>>, <<>>)
       ELSE /\ conn' = [conn EXCEPT ![c].isAlive = FALSE, ![c].pinged = TRUE,
                                    ![c].ponged = FALSE]
            /\ out' = Out("ping-tick", NoId, "pinged", <<>>, <<>>)
    /\ UNCHANGED <<engineVars, clients, browserVars, clock>>

\* get-torrents: handleGetTorrents
HandleGetTorrents(c) ==
    /\ UNCHANGED <<streams, conn, app, net, clock>>
    /\ c \in clients
    /\ out' = Out("get-torrents", NoId, "none", <<>>,
                  <<Msg(c, "initial-torrents", NoId, "")>>)
    /\ UNCHANGED <<nextId, activeTorrents, status, updateTimer, downloadPath, torrent,
                   removeTimer, disk, calls, clients>>

\* an inbound message as ws.on('message') sees it: json whether JSON.parse
\* succeeds, object whether the value parsed has properties to read (null has
\* none), type its type property, NoType when it is missing or falsy
NoType == ""
Inbound(json, object, type) == [json |-> json, object |-> object, type |-> type]
\* the messages offered that reach no named handler but handlePing: text that
\* is not JSON, the JSON null, a value without a type, an unknown type, ping
Inbounds ==
    { Inbound(FALSE, FALSE, NoType), Inbound(TRUE, FALSE, NoType),
      Inbound(TRUE, TRUE, NoType), Inbound(TRUE, TRUE, "bogus"),
      Inbound(TRUE, TRUE, "ping") }

\* an unknown message type that is ignored
handleUnknownMessage_silent(c) == <<>>
\* handleUnknownMessage: an 'error' message to the sender
handleUnknownMessage(c) == <<Msg(c, "error", NoId, "")>>

\* ws.on('message') down to the dispatcher, for a message that no torrent
\* handler takes: a parse error, the TypeError of reading null.type and a
\* missing type are thrown to the catch block, which sends one 'error'
\* message; the dispatcher answers ping with pong and hands any other type
\* to handleUnknownMessage
onMessage(c, m) ==
    IF ~m.json THEN [ret |-> "invalid-json", sent |-> <<Msg(c, "error", NoId, "")>>]
    ELSE IF ~m.object THEN [ret |-> "type-error", sent |-> <<Msg(c, "error", NoId, "")>>]
    ELSE IF m.type = NoType THEN [ret |-> "no-type", sent |-> <<Msg(c, "error", NoId, "")>>]
    ELSE IF m.type = "ping" THEN [ret |-> "ping", sent |-> <<Msg(c, "pong", NoId, "")>>]
    ELSE [ret |-> "unknown-type", sent |-> handleUnknownMessage(c)]

\* a message of client c arrives that is none of the torrent requests
WsMessage(c, m) ==
    /\ c \in clients
    /\ conn[c].readyState = "open"
    /\ ~(m.json /\ m.object /\ m.type \in ServerCases \ {"ping"})
    /\ out' = Out("message", NoId, onMessage(c, m).ret, <<>>, onMessage(c, m).sent)
    /\ UNCHANGED <<engineVars, clients, conn, browserVars, clock>>

RECURSIVE UpdatesFor(_)
\* one torrent-update per torrent of getAllTorrents
UpdatesFor(S) ==
    IF S = {} THEN <<>>
    ELSE LET t == CHOOSE x \in S : \A y \in S : x <= y
         IN <<Msg("all", "torrent-update", t, status[t].status)>> \o UpdatesFor(S \ {t})

\* the setInterval callback of startPeriodicUpdates
PeriodicUpdate ==
    /\ UNCHANGED <<streams, conn, app, net, clock>>
    /\ clients # {}
    /\ out' = Out("periodic", NoId, "none", <<>>, UpdatesFor(activeTorrents))
    /\ UNCHANGED <<nextId, activeTorrents, status, updateTimer, downloadPath, torrent,
                   removeTimer, disk, calls, clients>>

(***************************************************************************)
(* GET /stream/:torrentId/:fileIndex.  A torrent has one file, which holds *)
(* all its pieces; lengths and byte positions are counted in pieces, and   *)
(* byte b of the file (counted from 0) lies in piece b + 1.                *)
(***************************************************************************)
\* the :fileIndex parameters offered
FileIndexes == {"0", "1", "x"}
NaN == "NaN"
\* parseInt(fileIndex)
parseInt(str) == CASE str = "0" -> "0" [] str = "1" -> "1" [] OTHER -> NaN
\* torrentInfo.torrent.files: empty until the metadata is known
torrentFiles(torrentId) == IF torrent[torrentId].pieces > 0 THEN {"0"} ELSE {}
\* file.length
fileLength(torrentId) == torrent[torrentId].pieces

\* the Range headers offered
Ranges ==
    {NoRange} \cup
    { [present |-> TRUE, start |-> b, end |-> e] :
         b \in 0..(MaxPieces - 1), e \in {Open} \cup 0..MaxPieces }
\* bytes=1- : the file from its second piece on
TailRange == [present |-> TRUE, start |-> 1, end |-> Open]
\* an end that defaults to the file size
rangeEnd_fileSize(range, fileSize) == IF range.end = Open THEN fileSize ELSE range.end
\* const end = parts[1] ? parseInt(parts[1], 10) : fileSize - 1
rangeEnd(range, fileSize) == IF range.end = Open THEN fileSize - 1 ELSE range.end

\* a handler that answers every request for a file with 200
StreamResponse_noRange(torrentId, fileIndex, range) ==
    IF torrentId \notin activeTorrents \/ parseInt(fileIndex) \notin torrentFiles(torrentId)
    THEN [code |-> 404, contentLength |-> 0, contentRange |-> <<>>]
    ELSE [code |-> 200, contentLength |-> fileLength(torrentId), contentRange |-> <<>>]

\* the head of the response the handler writes
StreamResponse(torrentId, fileIndex, range) ==
    IF torrentId \notin activeTorrents
    THEN [code |-> 404, contentLength |-> 0, contentRange |-> <<>>]
    ELSE IF parseInt(fileIndex) \notin torrentFiles(torrentId)
    THEN [code |-> 404, contentLength |-> 0, contentRange |-> <<>>]
    ELSE IF ~range.present
    THEN [code |-> 200, contentLength |-> fileLength(torrentId), contentRange |-> <<>>]
    ELSE LET fileSize == fileLength(torrentId)
             end == rangeEnd(range, fileSize)
         IN [code |-> 206, contentLength |-> (end - range.start) + 1,
             contentRange |-> <<range.start, end, fileSize>>]

\* a response just opened: the stream piped into it has the pieces next..last
\* to deliver, of which first stays the first; failed: the stream emitted
\* 'error'
Stream(torrentId, next, last, failed) ==
    [id |-> torrentId, first |-> next, next |-> next, last |-> last, failed |-> failed]

\* file.createReadStream({start, end}): the pieces the stream reads
firstPiece(range) == IF range.present THEN range.start + 1 ELSE 1
lastPiece(range, fileSize) ==
    LET end == IF range.present THEN rangeEnd(range, fileSize) ELSE fileSize - 1
    IN IF end > fileSize - 1 THEN fileSize ELSE end + 1

StreamRequest(torrentId, fileIndex, range) ==
    LET head == StreamResponse(torrentId, fileIndex, range)
    IN
    /\ out' = [Out("stream", torrentId, "none", <<>>, <<>>)
                 EXCEPT !.http = Http(fileIndex, range, head)]
    /\ IF head.code = 404
       THEN UNCHANGED streams
       ELSE LET r == Stream(torrentId, firstPiece(range),
                            lastPiece(range, fileLength(torrentId)), FALSE)
            IN /\ r \notin streams
               /\ Cardinality(streams) < MaxStreams
               /\ streams' = streams \cup {r}
    /\ UNCHANGED <<nextId, activeTorrents, status, updateTimer, downloadPath, torrent,
                   removeTimer, disk, calls, clients, conn, app, net, clock>>

\* a stream that reads the file in the download directory
streamSource_fs(torrentId, p) ==
    StorePath(downloadPath[torrentId], torrent[torrentId].name) \in disk

\* the source of the stream's data: the stream of the engine's file object,
\* which delivers the data of a piece once the engine has verified the piece
streamSource(torrentId, p) == p \in torrent[torrentId].have

\* stream.pipe(res): the stream delivers its next piece to the response
StreamData(r) ==
    /\ r \in streams
    /\ ~r.failed
    /\ r.next <= r.last
    /\ torrent[r.id].phase # "destroyed"
    /\ streamSource(r.id, r.next)
    /\ streams' = (streams \ {r}) \cup {[r EXCEPT !.next = @ + 1]}
    /\ out' = Out("stream-data", r.id, "none", <<>>, <<>>)
    /\ UNCHANGED <<nextId, activeTorrents, status, updateTimer, downloadPath, torrent,
                   removeTimer, disk, calls, clients, conn, app, net, clock>>

\* the stream emits 'end' after its last piece and pipe ends the response
StreamEnd(r) ==
    /\ r \in streams
    /\ ~r.failed
    /\ r.next > r.last
    /\ streams' = streams \ {r}
    /\ out' = Out("stream-end", r.id, "none", <<>>, <<>>)
    /\ UNCHANGED <<nextId, activeTorrents, status, updateTimer, downloadPath, torrent,
                   removeTimer, disk, calls, clients, conn, app, net, clock>>

\* the stream of a destroyed torrent emits 'error': the handler logs it and,
\* the headers being sent already, writes nothing; pipe does not end the
\* response when its source fails
StreamError(r) ==
    /\ r \in streams
    /\ ~r.failed
    /\ torrent[r.id].phase = "destroyed"
    /\ streams' = (streams \ {r}) \cup {[r EXCEPT !.failed = TRUE]}
    /\ out' = Out("stream-error", r.id, "none", <<>>, <<>>)
    /\ UNCHANGED <<nextId, activeTorrents, status, updateTimer, downloadPath, torrent,
                   removeTimer, disk, calls, clients, conn, app, net, clock>>

(***************************************************************************)
(* Specifications.  All of them run the same actions from the same         *)
(* initial state; each draws the inputs of its concern from the full sets  *)
(* and fixes the others, which keeps every state space finite and small.   *)
(***************************************************************************)
(***************************************************************************)
(* The browser client's connection (WebTorrentApp in app.js).  A delay is  *)
(* counted in units of 1/DelayUnit ms, in which every delay below the cap  *)
(* is a whole number.                                                      *)
(***************************************************************************)
\* this.maxReconnectAttempts
maxReconnectAttempts == 30
\* this.reconnectDelay, which no statement changes
reconnectDelay == 1000
\* the cap of the delay in scheduleReconnect
MaxDelay == 30000
DelayUnit == 512
\* this.refreshRate and the updateInterval of the TorrentManager, in ms
refreshRate == 5000
updateInterval == 1000
\* the age in seconds at which the refresh interval fires
RefreshTicks == refreshRate \div updateInterval
\* the messages startDownload(fresh) gives to sendMessage: start-torrent
\* with fresh false or true
UserMsgs == {"start-torrent", "start-torrent-fresh"}
\* the socket of the server that is the browser client's
Me == "c1"
\* CloseEvent.code of a normal closure
NormalClosure == 1000
\* CloseEvent.code of a connection that failed or was lost
AbnormalClosure == 1006
CloseCodes == {NormalClosure, AbnormalClosure}

Min(a, b) == IF a <= b THEN a ELSE b

RECURSIVE backoff_double(_)
\* a backoff that doubles the delay
backoff_double(k) ==
    IF k = 0 THEN Min(reconnectDelay * DelayUnit, MaxDelay * DelayUnit)
    ELSE Min(backoff_double(k - 1) * 2, MaxDelay * DelayUnit)

RECURSIVE backoff(_)
\* Math.min(this.reconnectDelay * Math.pow(1.5, k), 30000), the products taken
\* one factor at a time and capped at once, which gives the same minimum
backoff(k) ==
    IF k = 0 THEN Min(reconnectDelay * DelayUnit, MaxDelay * DelayUnit)
    ELSE Min((backoff(k - 1) * 3) \div 2, MaxDelay * DelayUnit)

\* scheduleReconnect on the client state a
scheduleReconnect(a) ==
    IF a.reconnectAttempts >= maxReconnectAttempts THEN a
    ELSE [a EXCEPT !.reconnectAttempts = @ + 1,
                   !.delay = backoff(a.reconnectAttempts),
                   !.timers = @ + 1]

\* a socket whose close event is still to come
Closable(ws) == ws \in {"connecting", "open", "closing"}

\* connectWebSocket on the client state a: this.ws.close() on the socket in
\* place, then this.ws = new WebSocket(wsUrl) with the handlers set; when the
\* constructor throws, this.ws stays the socket just closed and a reconnect
\* is scheduled
connectWebSocket(a, ctorThrows) ==
    IF ctorThrows
    THEN scheduleReconnect([a EXCEPT !.ws = IF Closable(@) THEN "closing" ELSE @])
    ELSE [a EXCEPT !.ws = "connecting",
                   !.replaced = IF Closable(a.ws) THEN @ + 1 ELSE @]

\* the onclose handler of a socket, whichever socket it was set on:
\* stopAutoRefresh, then a reconnect unless the closure was normal
onclose(a, code) ==
    LET b == [a EXCEPT !.isConnected = FALSE, !.refresh = NoTimer]
    IN IF code # NormalClosure THEN scheduleReconnect(b) ELSE b

\* a sendMessage that queues at the front
sendMessageOn_front(a, data, throws) ==
    IF a.isConnected /\ a.ws = "open"
    THEN IF throws
         THEN [app |-> [a EXCEPT !.pendingMessages = <<data>> \o @], wire |-> <<>>]
         ELSE [app |-> a, wire |-> <<data>>]
    ELSE LET b == [a EXCEPT !.pendingMessages = <<data>> \o @]
         IN [app |-> IF ~a.isConnected THEN scheduleReconnect(b) ELSE b, wire |-> <<>>]

\* sendMessage(data) on the client state a: the state it leaves and what it
\* passed to ws.send.  On an open connection the message is sent, or put
\* back at the front of the queue when ws.send throws; otherwise it is
\* queued at the end and a reconnect is scheduled when isConnected is false
sendMessageOn(a, data, throws) ==
    IF a.isConnected /\ a.ws = "open"
    THEN IF throws
         THEN [app |-> [a EXCEPT !.pendingMessages = <<data>> \o @], wire |-> <<>>]
         ELSE [app |-> a, wire |-> <<data>>]
    ELSE LET b == [a EXCEPT !.pendingMessages = Append(@, data)]
         IN [app |-> IF ~a.isConnected THEN scheduleReconnect(b) ELSE b, wire |-> <<>>]

\* the onopen handler after sendPendingMessages: requestInitialTorrents,
\* then startAutoRefresh
onopenRest(a, throws) ==
    LET r == sendMessageOn(a, "get-torrents", throws)
    IN [app |-> [r.app EXCEPT !.refresh = 0, !.flushing = FALSE], wire |-> r.wire]

\* room for one more pending timer and one more replaced socket
AppRoom == app.timers < MaxTimers /\ app.replaced < MaxReplaced

\* a step of the client that leaves it in state a after it has passed the
\* messages wire to ws.send
AppSend(op, a, wire) ==
    /\ Len(a.pendingMessages) <= MaxQueue
    /\ app' = a
    /\ out' = [Out(op, NoId, "none", <<>>, <<>>) EXCEPT !.wire = wire]
    /\ UNCHANGED <<engineVars, clients, conn, net, clock>>

\* a handler of the client, which runs when no other is running
AppStep(op, a) ==
    /\ ~app.flushing
    /\ AppSend(op, a, <<>>)

\* the setTimeout callback of the constructor: checkConnection(), then
\* connectWebSocket() and startAutoRefresh()
AppStart ==
    /\ ~app.started
    /\ AppStep("app-start",
               [connectWebSocket([app EXCEPT !.started = TRUE, !.checking = TRUE], FALSE)
                  EXCEPT !.refresh = 0])

\* testWs.onopen of checkConnection: a test socket, made while the interval
\* of checkConnection is set, has opened
TestOpen ==
    /\ app.checking
    /\ net.reachable
    /\ AppStep("test-open", [app EXCEPT !.isConnected = TRUE])

\* the interval of checkConnection clears itself once isConnected is true
CheckTick ==
    /\ app.checking
    /\ app.isConnected
    /\ AppStep("check-tick", [app EXCEPT !.checking = FALSE])

\* ws.onopen of this.ws, to the end of the handler when no message is
\* queued and into the loop of sendPendingMessages otherwise; throws:
\* ws.send throws
MainOpen(throws) ==
    /\ app.ws = "connecting"
    /\ net.reachable
    /\ ~app.flushing
    /\ LET a == [app EXCEPT !.ws = "open", !.isConnected = TRUE,
                            !.reconnectAttempts = 0]
       IN IF ~a.isConnected \/ a.pendingMessages = <<>>
          THEN AppSend("ws-open", onopenRest(a, throws).app, onopenRest(a, throws).wire)
          ELSE AppSend("ws-open", [a EXCEPT !.flushing = TRUE], <<>>)

\* one turn of the loop of sendPendingMessages: the first message is taken
\* off the queue and given to sendMessage; the handler runs on to its end
\* once the queue is empty.  throws: ws.send throws for the message, last:
\* it throws for the request that follows the loop
FlushStep(throws, last) ==
    /\ app.flushing
    /\ LET r == sendMessageOn([app EXCEPT !.pendingMessages = Tail(@)],
                              Head(app.pendingMessages), throws)
       IN IF r.app.pendingMessages # <<>>
          THEN AppSend("flush", r.app, r.wire)
          ELSE AppSend("flush", onopenRest(r.app, last).app,
                       r.wire \o onopenRest(r.app, last).wire)

\* ws.onclose of this.ws: a connection attempt that failed, a connection that
\* was lost or closed by the server, or the close of a socket closed by
\* connectWebSocket whose replacement could not be made
MainClose(code) ==
    /\ Closable(app.ws)
    /\ app.ws = "connecting" => (code = AbnormalClosure /\ ~net.reachable)
    /\ app.ws = "closing" => code = AbnormalClosure
    /\ AppRoom
    /\ AppStep("ws-close", onclose([app EXCEPT !.ws = "closed"], code))

\* ws.onclose of a socket that connectWebSocket closed and replaced: the
\* handlers set on it still act on the client
ReplacedClose ==
    /\ app.replaced > 0
    /\ AppRoom
    /\ AppStep("replaced-close",
               onclose([app EXCEPT !.replaced = @ - 1], AbnormalClosure))

\* the setTimeout callback of scheduleReconnect
ReconnectTimer(ctorThrows) ==
    /\ app.timers > 0
    /\ app.replaced < MaxReplaced
    /\ AppStep("reconnect", connectWebSocket([app EXCEPT !.timers = @ - 1], ctorThrows))

\* sendMessage from a user action
sendMessage(data, throws) ==
    /\ app.started
    /\ AppRoom
    /\ ~app.flushing
    /\ AppSend("send", sendMessageOn(app, data, throws).app,
               sendMessageOn(app, data, throws).wire)

\* stopTorrent(torrentId) of the client: stop-torrent is passed to ws.send
\* of the open socket, not to sendMessage
stopTorrent(torrentId) ==
    /\ torrentId # NoId
    /\ app.ws = "open"
    /\ ~app.flushing
    /\ app' = app
    /\ out' = [Out("stop-click", torrentId, "none", <<>>, <<>>)
                 EXCEPT !.wire = <<"stop-torrent">>]
    /\ UNCHANGED <<engineVars, clients, conn, net, clock>>

\* the messages of the last step that reach the client's socket
Inbox ==
    { i \in 1..Len(out.sent) :
         out.sent[i].to = Me \/ (out.sent[i].to = "all" /\ Me \in out.rcpt) }

\* ws.onmessage for the messages the server sent in its last step, in their
\* order: handleWebSocketMessage, and the refresh interval set anew
ClientReceive ==
    /\ Inbox # {}
    /\ app.ws = "open"
    /\ ~app.flushing
    /\ app' = [app EXCEPT
                  !.torrents = Deliver(@, Me, out.rcpt, out.sent, activeTorrents),
                  !.refresh = IF @ = NoTimer THEN @ ELSE 0]
    /\ out' = Out("receive", NoId,
                  IF \E i \in Inbox : out.sent[i].type = "connection"
                  THEN "connection" ELSE "none", <<>>, <<>>)
    /\ UNCHANGED <<engineVars, clients, conn, net, clock>>

\* the setInterval callback of startAutoRefresh, refreshRate after the
\* interval was set: requestTorrentUpdates on an open connection
Refresh(throws) ==
    /\ app.refresh = RefreshTicks
    /\ ~app.flushing
    /\ LET a == [app EXCEPT !.refresh = 0]
           r == sendMessageOn(a, "get-torrents", throws)
       IN IF app.isConnected /\ app.ws = "open" /\ app.torrents # {}
          THEN AppSend("refresh", r.app, r.wire)
          ELSE AppSend("refresh", a, <<>>)

\* a second passes: every update timer that runs has fired in it, and a
\* refresh that is due has run
Second ==
    /\ \A t \in Ids : updateTimer[t] => t \in clock.fired
    /\ app.refresh # RefreshTicks
    /\ clock' = NoClock
    /\ app' = [app EXCEPT !.refresh = IF @ = NoTimer THEN @ ELSE @ + 1]
    /\ out' = Out("second", NoId, "none", <<>>, <<>>)
    /\ UNCHANGED <<engineVars, clients, conn, net>>

\* the server becomes unreachable or reachable again
NetChange ==
    /\ net' = [net EXCEPT !.reachable = ~@]
    /\ out' = Out("net", NoId, "none", <<>>, <<>>)
    /\ UNCHANGED <<engineVars, clients, conn, app, clock>>

\* the name used where the store is not the concern; outside StreamSpec a
\* torrent has one piece
OneName == "a"

\* Spec: the TorrentManager through its API with the lifecycle events of the
\* engine, for torrents that receive no data
Next ==
    \/ \E in \in StartInputs : StartRequest(Api, in, FALSE, 0)
    \/ \E id \in ReqIds : StopRequest(Api, id)
    \/ \E id \in ReqIds, df \in BOOLEAN : DeleteRequest(Api, id, df)
    \/ \E call \in calls, err \in BOOLEAN, rmThrows \in BOOLEAN :
          DestroyDone(call, err, rmThrows)
    \/ \E t \in Ids : RemoveTimeout(t)
    \/ \E t \in Ids : Metadata(t, OneName, 1)
    \/ \E t \in Ids : Ready(t)
    \/ \E t \in Ids : Error(t)
    \/ \E t \in Ids : Wire(t)
    \/ \E t \in Ids : Warning(t)
    \/ \E t \in Ids, stats \in EngineStats : Tick(t, stats)

Spec == Init /\ [][Next]_vars

\* ServerSpec: the WebSocket server with its clients and their requests
ServerNext ==
    \/ \E c \in Clients, in \in StartInputs : StartRequest(c, in, FALSE, 0)
    \/ \E c \in Clients, id \in ReqIds : StopRequest(c, id)
    \/ \E c \in Clients, id \in ReqIds : DeleteRequest(c, id, FALSE)
    \/ \E call \in calls, err \in BOOLEAN : DestroyDone(call, err, FALSE)
    \/ \E t \in Ids : RemoveTimeout(t)
    \/ \E t \in Ids : Error(t)
    \/ \E c \in Clients : WsConnect(c)
    \/ \E c \in Clients : WsClose(c)
    \/ \E c \in Clients : WsError(c)
    \/ \E c \in Clients : HandleGetTorrents(c)
    \/ PeriodicUpdate

ServerSpec == Init /\ [][ServerNext]_vars

\* DiskSpec: the download directories, the stored files and their deletion
DiskNext ==
    \/ \E in \in StartInputs, fresh \in BOOLEAN, ts \in Times :
          StartRequest(Api, in, fresh, ts)
    \/ \E id \in Ids, df \in BOOLEAN : DeleteRequest(Api, id, df)
    \/ \E call \in calls, rmThrows \in BOOLEAN : DestroyDone(call, FALSE, rmThrows)
    \/ \E t \in Ids : RemoveTimeout(t)
    \/ \E t \in Ids, n \in Names : Metadata(t, n, 1)
    \/ \E t \in Ids : Download(t, 1)

DiskSpec == Init /\ [][DiskNext]_vars

\* StreamSpec: one torrent with its pieces, its progress and the HTTP
\* responses that stream its file
StreamNext ==
    \/ \E in \in StartInputs : nextId = 1 /\ StartRequest(Api, in, FALSE, 0)
    \/ \E id \in Ids : StopRequest(Api, id)
    \/ \E call \in calls, err \in BOOLEAN : DestroyDone(call, err, FALSE)
    \/ \E t \in Ids : RemoveTimeout(t)
    \/ \E t \in Ids, n \in 1..MaxPieces : Metadata(t, OneName, n)
    \/ \E t \in Ids, p \in 1..MaxPieces : Download(t, p)
    \/ \E t \in Ids : Done(t)
    \/ \E t \in Ids : Error(t)
    \/ \E t \in Ids, stats \in EngineStats : Tick(t, stats)
    \/ \E id \in Ids, range \in {NoRange, TailRange} : StreamRequest(id, "0", range)
    \/ \E r \in streams : StreamData(r)
    \/ \E r \in streams : StreamEnd(r)
    \/ \E r \in streams : StreamError(r)

StreamSpec == Init /\ [][StreamNext]_vars

\* HttpSpec: the stream route under every request offered, for one torrent
\* and the pieces it receives
HttpNext ==
    \/ \E in \in StartInputs : nextId = 1 /\ StartRequest(Api, in, FALSE, 0)
    \/ \E id \in Ids : StopRequest(Api, id)
    \/ \E call \in calls, err \in BOOLEAN : DestroyDone(call, err, FALSE)
    \/ \E t \in Ids : RemoveTimeout(t)
    \/ \E t \in Ids, n \in 1..MaxPieces : Metadata(t, OneName, n)
    \/ \E t \in Ids, p \in 1..MaxPieces : Download(t, p)
    \/ \E id \in ReqIds, fileIndex \in FileIndexes, range \in Ranges :
          StreamRequest(id, fileIndex, range)
    \/ \E r \in streams : StreamData(r)
    \/ \E r \in streams : StreamEnd(r)

HttpSpec == Init /\ [][HttpNext]_vars

\* LiveSpec: one download root and one name, with the steps the program itself
\* schedules taken eventually: the update timer of a torrent keeps firing
\* while it is set, the engine calls back every pending destroy, and the
\* removal timeout of stopTorrent fires.  The events of the engine (metadata,
\* error) and the requests of the caller may never come.
LiveNext ==
    \/ \E in \in StartInputs : StartRequest(Api, in, FALSE, 0)
    \/ \E id \in Ids : StopRequest(Api, id)
    \/ \E call \in calls, err \in BOOLEAN : DestroyDone(call, err, FALSE)
    \/ \E t \in Ids : RemoveTimeout(t)
    \/ \E t \in Ids : Metadata(t, OneName, 1)
    \/ \E t \in Ids : Error(t)
    \/ \E t \in Ids, stats \in EngineStats : Tick(t, stats)

LiveSpec ==
    /\ Init
    /\ [][LiveNext]_vars
    /\ \A t \in Ids : WF_vars(\E stats \in EngineStats : Tick(t, stats))
    /\ \A t \in Ids : WF_vars(RemoveTimeout(t))
    /\ WF_vars(\E call \in calls, err \in BOOLEAN : DestroyDone(call, err, FALSE))

\* CallbackSpec: the engine's events with an update callback that may throw
CallbackNext ==
    \/ \E in \in StartInputs : StartRequest(Api, in, FALSE, 0)
    \/ \E t \in Ids : Metadata(t, OneName, 1)
    \/ \E t \in Ids : Download(t, 1)
    \/ \E t \in Ids, throws \in BOOLEAN : DoneCb(t, throws)
    \/ \E t \in Ids, throws \in BOOLEAN : ErrorCb(t, throws)
    \/ \E t \in Ids, stats \in EngineStats : Tick(t, stats)

CallbackSpec == Init /\ [][CallbackNext]_vars

\* PingSpec: the server's sockets with their ping intervals, and the
\* broadcasts of the update callback and of the periodic update
PingNext ==
    \/ \E in \in StartInputs : nextId = 1 /\ StartRequest(Api, in, FALSE, 0)
    \/ \E t \in Ids : Error(t)
    \/ \E c \in Clients : WsConnect(c)
    \/ \E c \in Clients : WsClose(c)
    \/ \E c \in Clients : WsError(c)
    \/ \E c \in Clients : Pong(c)
    \/ \E c \in Clients : PingTick(c)
    \/ PeriodicUpdate

PingSpec == Init /\ [][PingNext]_vars

\* MessageSpec: the server's message handler under every kind of inbound
\* message, next to the requests of its clients for one torrent
MessageNext ==
    \/ \E c \in Clients, in \in StartInputs : nextId = 1 /\ StartRequest(c, in, FALSE, 0)
    \/ \E c \in Clients, id \in ReqIds : StopRequest(c, id)
    \/ \E call \in calls, err \in BOOLEAN : DestroyDone(call, err, FALSE)
    \/ \E t \in Ids : RemoveTimeout(t)
    \/ \E c \in Clients : WsConnect(c)
    \/ \E c \in Clients : WsClose(c)
    \/ \E c \in Clients : HandleGetTorrents(c)
    \/ \E c \in Clients, m \in Inbounds : WsMessage(c, m)
    \/ \E t \in Ids : Metadata(t, OneName, 1)
    \/ \E c \in Clients, t \in Ids : ClientStartTorrent(c, t)

MessageSpec == Init /\ [][MessageNext]_vars

\* AppSpec: the connection of the browser client
AppNext ==
    \/ AppStart
    \/ TestOpen
    \/ CheckTick
    \/ \E throws \in BOOLEAN : MainOpen(throws)
    \/ \E throws \in BOOLEAN, last \in BOOLEAN : FlushStep(throws, last)
    \/ \E code \in CloseCodes : MainClose(code)
    \/ ReplacedClose
    \/ \E ctorThrows \in BOOLEAN : ReconnectTimer(ctorThrows)
    \/ \E data \in UserMsgs, throws \in BOOLEAN : sendMessage(data, throws)
    \/ NetChange

AppSpec == Init /\ [][AppNext]_vars

\* AppLiveSpec: the connection of the browser client with the steps the
\* browser itself takes: a pending timer fires, a socket that is connecting
\* opens while the server can be reached and fails while it cannot, and the
\* close event of a closed socket is delivered.  Connections are lost only
\* abnormally, and the user sends nothing, so that no socket is replaced
\* before it has closed.
AppLiveNext ==
    \/ AppStart
    \/ TestOpen
    \/ CheckTick
    \/ MainOpen(FALSE)
    \/ MainClose(AbnormalClosure)
    \/ ReconnectTimer(FALSE)
    \/ NetChange

AppLiveSpec ==
    /\ Init
    /\ [][AppLiveNext]_vars
    /\ WF_vars(AppStart)
    /\ WF_vars(MainOpen(FALSE))
    /\ WF_vars(app.ws # "open" /\ MainClose(AbnormalClosure))
    /\ WF_vars(ReconnectTimer(FALSE))

\* FlushSpec: the client of AppSpec, where a handler that has begun runs
\* on: the loop of sendPendingMessages takes its next turn while it has one
FlushSpec ==
    /\ Init
    /\ [][AppNext]_vars
    /\ WF_vars(\E throws \in BOOLEAN, last \in BOOLEAN : FlushStep(throws, last))

\* SyncSpec: one browser client that stays connected, the server and the
\* timers of both, with the seconds counted.  A message is handled by the
\* other side before anything else happens: the user acts, the engine
\* answers and the timers fire between two exchanges, not within one.
InFlight ==
    \/ Inbox # {}
    \/ out.wire # <<>>
    \/ out.op = "ws-open"
    \/ (out.op = "receive" /\ out.ret = "connection")

\* the user, on the open connection, adds a torrent
UserSend(data) ==
    /\ ~InFlight
    /\ app.isConnected /\ app.ws = "open"
    /\ sendMessage(data, FALSE)

\* the user stops a torrent the client lists
UserStop(torrentId) ==
    /\ ~InFlight
    /\ torrentId \in app.torrents
    /\ stopTorrent(torrentId)

\* the server's connection handler for the socket the client has opened
ServerConnect ==
    /\ out.op = "ws-open"
    /\ WsConnect(Me)

\* the server's message handler for the message the client has sent;
\* get-torrents is the request of the onopen handler, which the server has
\* on the connection once it has sent its welcome, or that of the refresh
ServerReceive ==
    \/ /\ out.wire = <<"start-torrent">>
       /\ \E in \in StartInputs : StartRequest(Me, in, FALSE, 0)
    \/ /\ out.wire = <<"stop-torrent">>
       /\ StopRequest(Me, out.id)
    \/ /\ \/ out.op = "receive" /\ out.ret = "connection"
          \/ out.op = "refresh" /\ out.wire = <<"get-torrents">>
       /\ HandleGetTorrents(Me)

SyncNext ==
    \/ AppStart
    \/ MainOpen(FALSE)
    \/ ServerConnect
    \/ ServerReceive
    \/ ClientReceive
    \/ UserSend("start-torrent")
    \/ \E t \in Ids : UserStop(t)
    \/ \E call \in calls, err \in BOOLEAN : ~InFlight /\ DestroyDone(call, err, FALSE)
    \/ \E t \in Ids : ~InFlight /\ RemoveTimeout(t)
    \/ \E t \in Ids : ~InFlight /\ Metadata(t, OneName, 1)
    \/ \E t \in Ids, stats \in EngineStats : ~InFlight /\ TickAt(t, stats)
    \/ ~InFlight /\ Refresh(FALSE)
    \/ ~InFlight /\ Second

\* the handlers run when their event has come, the timers fire however
\* often other handlers run, and the seconds pass; the user and the metadata
\* of a torrent may never come
SyncSpec ==
    /\ Init
    /\ [][SyncNext]_vars
    /\ WF_vars(AppStart)
    /\ WF_vars(MainOpen(FALSE))
    /\ WF_vars(ServerConnect)
    /\ WF_vars(ServerReceive)
    /\ WF_vars(ClientReceive)
    /\ WF_vars(\E call \in calls, err \in BOOLEAN : ~InFlight /\ DestroyDone(call, err, FALSE))
    /\ \A t \in Ids : SF_vars(~InFlight /\ RemoveTimeout(t))
    /\ \A t \in Ids : SF_vars(\E stats \in EngineStats : ~InFlight /\ TickAt(t, stats))
    /\ SF_vars(~InFlight /\ Refresh(FALSE))
    /\ SF_vars(~InFlight /\ Second)


(***************************************************************************)
(* Properties.                                                             *)
(***************************************************************************)
\* the messages of the last step that were broadcast to every open socket
Broadcasts == { i \in 1..Len(out.sent) : out.sent[i].to = "all" }
\* the torrent map of a client that listed exactly the registered torrents,
\* after the messages of the last step
MapAfter(c) == Deliver(activeTorrents, c, clients, out.sent, activeTorrents)

\* C1: a start request whose magnet link does not carry an info-hash of
\* exactly 40 hexadecimal digits fails with InvalidInput and registers no
\* torrent.
C1_MalformedHashRejected ==
    [][\A c \in Clients, in \in StartInputs :
          (StartRequest(c, in, FALSE, 0) /\ ~in.wellFormed)
             => (out'.ret = "InvalidInput" /\ activeTorrents' = activeTorrents)]_vars

\* a stop of a torrentId that is not registered fails with NotFound, invokes
\* no update callback and leaves the registry, the statuses and the timers
\* as they were
StopUnknownFails ==
    \A id \in ReqIds :
       (StopRequest(Api, id) /\ id \notin activeTorrents)
          => /\ out'.ret = "NotFound"
             /\ out'.cb = <<>>
             /\ UNCHANGED <<activeTorrents, status, updateTimer>>

C3_UnknownStopNotBroadcast ==
    (out.op = "stop" /\ out.id \notin activeTorrents)
       => /\ Broadcasts = {}
          /\ \A c \in clients : MapAfter(c) = activeTorrents

\* C4: a stop of a registered torrent deletes nothing from the disk at any of
\* its steps; when it returns, the status of the torrent is 'stopped' with
\* downloadSpeed, uploadSpeed and peers 0; and the update timer produces no
\* status update for a torrent that a stop has destroyed.
C4_StopKeepsDataAndQuiets ==
    [][/\ \A id \in Ids : StopRequest(Api, id) => disk' = disk
       /\ \A call \in calls, err \in BOOLEAN, rmThrows \in BOOLEAN :
             (call.kind = "stop" /\ DestroyDone(call, err, rmThrows))
                => /\ disk' = disk
                   /\ out'.ret = "stopped"
                         => /\ status'[call.id].status = "stopped"
                            /\ status'[call.id].downloadSpeed = 0
                            /\ status'[call.id].uploadSpeed = 0
                            /\ status'[call.id].peers = 0
       /\ \A t \in Ids, stats \in EngineStats :
             Tick(t, stats) => torrent[t].phase # "destroyed"]_vars
\* a stop returned for a torrent whose downloaded files are on the disk
C4_Witness ==
    /\ out.op = "stop-done"
    /\ out.ret = "stopped"
    /\ status[out.id].status = "stopped"
    /\ torrent[out.id].name # NoName
    /\ StorePath(downloadPath[out.id], torrent[out.id].name) \in disk

\* C5: when a remove with deleteFiles = true returns deleted: true, the files
\* downloaded for the torrent are no longer on the disk; a remove with
\* deleteFiles = false deletes nothing.
C5_DeletedFilesAreGone ==
    [][\A call \in calls, rmThrows \in BOOLEAN :
          (call.kind = "delete" /\ DestroyDone(call, FALSE, rmThrows))
             => IF call.deleteFiles
                THEN StorePath(downloadPath[call.id], torrent[call.id].name)
                        \notin disk'
                ELSE disk' = disk]_vars

\* C6: a remove of torrent A with deleteFiles = true deletes no file of
\* another torrent B, whatever the name and the download root of B: the
\* files a completed download of B wrote are still on the disk afterwards.
C6_RemoveSparesOtherTorrents ==
    [][\A call \in calls, rmThrows \in BOOLEAN :
          (call.kind = "delete" /\ call.deleteFiles
             /\ DestroyDone(call, FALSE, rmThrows))
             => \A B \in Ids \ {call.id} :
                   (/\ torrent[B].phase = "full"
                    /\ StorePath(downloadPath[B], torrent[B].name) \in disk)
                      => StorePath(downloadPath[B], torrent[B].name) \in disk']_vars

\* a step of an error event, a stop or a remove on torrent A
StepOn(A) ==
    \/ Error(A)
    \/ StopRequest(Api, A)
    \/ \E df \in BOOLEAN : DeleteRequest(Api, A, df)
    \/ \E call \in calls, err \in BOOLEAN, rmThrows \in BOOLEAN :
          call.id = A /\ DestroyDone(call, err, rmThrows)
    \/ RemoveTimeout(A)

\* C7: an error event, a stop or a remove on torrent A leaves the registry
\* entry, the status record and the update timer of every other torrent B
\* unchanged.
C7_OtherTorrentsUntouched ==
    [][\A A \in Ids :
          StepOn(A)
             => \A B \in Ids \ {A} :
                   /\ (B \in activeTorrents') = (B \in activeTorrents)
                   /\ status'[B] = status[B]
                   /\ updateTimer'[B] = updateTimer[B]]_vars
\* an error event, a stop or a remove has just acted on one torrent while
\* another one is registered with its timer running
C7_Witness ==
    /\ out.op \in {"error", "stop", "delete", "stop-done", "delete-done"}
    /\ out.id \in Ids
    /\ \E B \in activeTorrents \ {out.id} :
          updateTimer[B] /\ status[B].status \in {"starting", "downloading"}

\* C8: a client connection closing or erroring leaves the registry and every
\* torrent's status, update timer and engine torrent unchanged.
C8_ClientCloseLeavesTorrents ==
    [][\A c \in Clients :
          (WsClose(c) \/ WsError(c))
             => UNCHANGED <<activeTorrents, status, updateTimer, torrent>>]_vars
\* a socket closed while a torrent was registered and its timer running
C8_Witness ==
    /\ out.op \in {"close", "wserror"}
    /\ \E t \in activeTorrents : updateTimer[t] /\ status[t].status = "starting"

\* C9: a started torrent that receives no metadata does not stay 'starting'
\* forever: unless metadata arrives or the torrent is stopped, its status
\* eventually becomes 'error'.
C9_NoMetadataLeadsToError ==
    \A t \in Ids :
       (status[t].status = "starting")
          ~> (status[t].status = "error" \/ torrent[t].phase # "added")

\* C10: when a torrent raises an error event, its status becomes 'error'
\* with the error message recorded, its update timer is stopped, and the
\* update callback is invoked once with the torrentId and the error status.
C10_ErrorEventReported ==
    [][\A t \in Ids :
          Error(t)
             => /\ status'[t].status = "error"
                /\ status'[t].error = ErrMsg
                /\ ~updateTimer'[t]
                /\ out'.cb = <<<<t, "error">>>>]_vars
\* an error event has just been handled for a torrent that was downloading
C10_Witness ==
    /\ out.op = "error"
    /\ out.cb = <<<<out.id, "error">>>>
    /\ status[out.id].error = ErrMsg
    /\ torrent[out.id].name # NoName
    /\ ~updateTimer[out.id]

\* C11: once the status of a torrent is 'error', no engine event changes it
\* to another value: the only steps after which it is not 'error' any more
\* are a stop or a remove requested for that torrent.
C11_ErrorIsTerminal ==
    [][\A t \in Ids :
          (status[t].status = "error" /\ status'[t].status # "error")
             => (out'.id = t /\ out'.op \in {"stop", "delete"})]_vars
\* a torrent that had all its pieces is in 'error' and stays so after a
\* later step
C11_Witness ==
    \E t \in Ids :
       /\ status[t].status = "error"
       /\ torrentProgress(t) = 100
       /\ out.op # "error"

\* C12: a warning of a torrent or a peer connection event leaves every status
\* record unchanged and invokes no update callback.
C12_WarningAndWireAreSilent ==
    [][\A t \in Ids :
          (Wire(t) \/ Warning(t)) => (status' = status /\ out'.cb = <<>>)]_vars
\* a warning or a peer connection of a downloading torrent was handled
C12_Witness ==
    /\ out.op \in {"wire", "warning"}
    /\ out.cb = <<>>
    /\ status[out.id].status = "downloading"

\* C13: metadata, a periodic tick, completion and an error each invoke the
\* update callback once, with the id of the torrent and its status as it is
\* after the change.
C13_ChangesArePushed ==
    [][\A t \in Ids :
          (\/ \E n \in 1..MaxPieces : Metadata(t, OneName, n)
           \/ \E stats \in EngineStats : Tick(t, stats)
           \/ Done(t)
           \/ Error(t))
             => out'.cb = <<<<t, status'[t].status>>>>]_vars
\* the completion of a download was pushed
C13_Witness ==
    /\ out.op = "done"
    /\ out.cb = <<<<out.id, "completed">>>>
    /\ status[out.id].status = "completed"

C15_ProgressMonotone ==
    [][\A t \in Ids :
          /\ status'[t].progress \in 0..100
          /\ (t \notin activeTorrents /\ t \in activeTorrents')
                => status'[t].progress = 0
          /\ (t \in activeTorrents /\ t \in activeTorrents')
                => status'[t].progress >= status[t].progress
          /\ status'[t].status = "completed" => status'[t].progress = 100]_vars
\* a tick reported a progress strictly between 0 and 100
C15_Witness ==
    /\ out.op = "tick"
    /\ status[out.id].progress > 0
    /\ status[out.id].progress < 100

\* C16: at every observation point the field downloaded of a registered
\* torrent's status equals the length of its verified pieces.
C16_DownloadedIsExact ==
    \A t \in activeTorrents : status[t].downloaded = torrentDownloaded(t)

\* whether the file index names a file of the torrent
NamesFile(torrentId, fileIndex) == fileIndex = "0" /\ torrent[torrentId].pieces > 0

\* C17: a stream request answers 404 exactly when the torrentId is not
\* registered or the file index names no file of the torrent; otherwise 200
\* with Content-Length equal to the file size without a Range header, and
\* 206 with a Content-Range header with one.
C17_StreamStatusCodes ==
    out.op = "stream"
       => LET absent == out.id \notin activeTorrents
                           \/ ~NamesFile(out.id, out.http.fileIndex)
              head == out.http.head
          IN /\ (head.code = 404) <=> absent
             /\ (~absent /\ ~out.http.range.present)
                   => (head.code = 200 /\ head.contentLength = fileLength(out.id))
             /\ (~absent /\ out.http.range.present)
                   => (head.code = 206 /\ head.contentRange # <<>>)
\* a range request for the file of a registered torrent was answered
C17_Witness ==
    /\ out.op = "stream"
    /\ out.http.range.present
    /\ out.http.head.code = 206
    /\ out.http.head.contentRange # <<>>
    /\ out.id \in activeTorrents

C19_NoResponseLeftOpen ==
    \A r \in streams : ~r.failed

\* C20: any two torrents registered at the same time have different download
\* directories.
C20_OneDirectoryPerTorrent ==
    \A A \in activeTorrents, B \in activeTorrents :
       A # B => downloadPath[A] # downloadPath[B]

\* C21: a start request rejected for a malformed magnet link allocates
\* nothing: no download directory, no torrentId generated or registered, no
\* update timer started, and no torrent-update broadcast.
C21_RejectedStartAllocatesNothing ==
    [][(out'.op = "start" /\ out'.ret = "InvalidInput")
          => /\ UNCHANGED <<nextId, activeTorrents, updateTimer, downloadPath, disk,
                            status, torrent>>
             /\ \A i \in 1..Len(out'.sent) :
                   out'.sent[i].to # "all" /\ out'.sent[i].type # "torrent-update"]_vars
\* a client's start request was rejected while a torrent was registered and
\* another client was connected
C21_Witness ==
    /\ out.op = "start"
    /\ out.ret = "InvalidInput"
    /\ activeTorrents # {}
    /\ Cardinality(clients) = 2

\* C22: the browser client never has more than one reconnection attempt in
\* progress: at most one reconnect timer is pending or one replacement
\* socket is connecting.
C22_OneReconnectAtATime ==
    app.timers + (IF app.ws = "connecting" THEN 1 ELSE 0) <= 1

\* C23: the delay before the n-th consecutive reconnect attempt is
\* min(1000 * 1.5^(n-1), 30000) ms, so the delays do not decrease and never
\* exceed 30 s; reconnectAttempts never exceeds 30; and a successful open
\* resets the attempt count to 0.
C23_BackoffIsCappedAndReset ==
    [][/\ app'.reconnectAttempts <= 30
       /\ app'.delay <= 30000 * DelayUnit
       /\ (app'.reconnectAttempts = app.reconnectAttempts + 1)
             => LET n == app'.reconnectAttempts
                IN /\ IF n <= 9
                      THEN app'.delay = 1000 * 3^(n - 1) * (DelayUnit \div 2^(n - 1))
                      ELSE app'.delay = 30000 * DelayUnit
                   /\ n > 1 => app'.delay >= app.delay
       /\ (\E throws \in BOOLEAN : MainOpen(throws)) => app'.reconnectAttempts = 0]_vars
\* the connection has opened again after the delay had reached its cap
C23_Witness ==
    /\ out.op = "ws-open"
    /\ app.reconnectAttempts = 0
    /\ app.delay = 30000 * DelayUnit

\* C24: after the client's connection is lost, if the server is reachable
\* from some point on, the client eventually has an open main WebSocket
\* again, however long the outage lasted.
C24_ReconnectsEventually ==
    (<>[](net.reachable)) => []((app.ws = "closed") => <>(app.ws = "open"))

\* C25: when a client connection closes or errors, the server removes it
\* from the client set and cancels its ping timer, so no later broadcast is
\* sent to it and no timer for it keeps firing; a broadcast is sent only to
\* connections that are open.
C25_ClosedSocketsAreCleanedUp ==
    [][/\ \A c \in Clients :
             (WsClose(c) \/ WsError(c)) => (c \notin clients' /\ ~conn'[c].pingInterval)
       /\ \A c \in Clients :
             PingTick(c) => c \in clients
       /\ \A c \in out'.rcpt : c \in clients /\ conn[c].readyState = "open"]_vars
\* a broadcast went out while a terminated socket was still in the client set
\* and after another socket had been closed
C25_Witness ==
    /\ out.rcpt # {}
    /\ \E c \in clients : conn[c].readyState = "closing"

\* C26: a connection that sends no pong between two consecutive ping ticks
\* is terminated at the second tick, and a connection that answers every
\* ping with a pong before the next tick is never terminated by the health
\* check.
C26_HealthCheck ==
    [][\A c \in Clients :
          (PingTick(c) /\ conn[c].readyState = "open")
             => ((conn'[c].readyState = "closing")
                    <=> (conn[c].pinged /\ ~conn[c].ponged))]_vars
\* a socket that had answered one ping was terminated after it left the next
\* one unanswered
C26_Witness ==
    /\ out.op = "ping-tick"
    /\ out.ret = "terminated"
    /\ \E c \in Clients : conn[c].readyState = "closing" /\ conn[c].pinged

\* C27: the client and the server agree on the message vocabulary: every
\* message type the client sends is a named case of the server dispatcher,
\* and every message type the server sends is a named case of the client
\* dispatcher.
C27_VocabularyAgrees ==
    /\ ClientSends \subseteq ServerCases
    /\ \A i \in 1..Len(out.sent) : out.sent[i].type \in ClientCases

\* the range of a stream request lies within the file
RangeInFile(range, fileSize) ==
    /\ range.present
    /\ range.start <= (IF range.end = Open THEN fileSize - 1 ELSE range.end)
    /\ (IF range.end = Open THEN fileSize - 1 ELSE range.end) <= fileSize - 1

C29_RangeIsValid ==
    (out.op = "stream" /\ out.http.head.code = 206)
       => LET cr == out.http.head.contentRange
          IN /\ 0 <= cr[1] /\ cr[1] <= cr[2] /\ cr[2] <= cr[3] - 1
             /\ out.http.head.contentLength >= 1

\* C30: an exception thrown by the registered update callback never
\* propagates into the engine: the event handler that triggered the update
\* completes normally, and the torrent's status, timer and registry entry
\* are what they would be had the callback returned normally.
C30_CallbackThrowIsContained ==
    [][\A t \in Ids, throws \in BOOLEAN :
          /\ DoneCb(t, throws)
                => /\ status' = [status EXCEPT ![t] = CompletedStatus(@)]
                   /\ updateTimer' = [updateTimer EXCEPT ![t] = FALSE]
                   /\ activeTorrents' = activeTorrents
                   /\ out'.ret = "none"
          /\ ErrorCb(t, throws)
                => /\ status' = [status EXCEPT ![t] = ErrorStatus(@, ErrMsg)]
                   /\ updateTimer' = [updateTimer EXCEPT ![t] = FALSE]
                   /\ activeTorrents' = activeTorrents
                   /\ out'.ret = "none"]_vars
\* the callback threw on the completion of a torrent, whose timer is cleared
C30_Witness ==
    /\ out.op = "done"
    /\ out.threw
    /\ status[out.id].status = "completed"
    /\ ~updateTimer[out.id]

\* C31: for every inbound WebSocket message that is not valid JSON, has no
\* type, or has an unrecognised type, the server sends exactly one 'error'
\* reply to the sender and leaves the torrent registry and the client set
\* unchanged.
C31_BadMessageGetsOneError ==
    [][\A c \in Clients, m \in Inbounds :
          (WsMessage(c, m) /\ (~m.json \/ m.type = NoType \/ m.type \notin ServerCases))
             => /\ out'.sent = <<Msg(c, "error", NoId, "")>>
                /\ UNCHANGED <<activeTorrents, status, clients>>]_vars
\* a message of an unknown type was answered while a torrent was registered
\* and another client was connected
C31_Witness ==
    /\ out.op = "message"
    /\ out.ret = "unknown-type"
    /\ Len(out.sent) = 1
    /\ activeTorrents # {}
    /\ Cardinality(clients) = 2

\* a stop-torrent request for torrent t awaits the destroy of the torrent
StopPending(t) == \E call \in calls : call.kind = "stop" /\ call.id = t /\ call.by # Api
\* the step is the catch block of a request: a stop-torrent that finds no
\* torrent, or a request whose destroy the engine answers with an error
RequestFails == out'.ret = "DestroyError" \/ (out'.op = "stop" /\ out'.ret = "none")
\* the statuses of the torrent-update messages for t in a sequence of messages
UpdatesOf(msgs, t) ==
    { msgs[i].st : i \in { j \in 1..Len(msgs) :
                             msgs[j].type = "torrent-update" /\ msgs[j].id = t } }

Removed(t) ==
    \E i \in 1..Len(out.sent) :
       out.sent[i].type = "torrent-removed" /\ out.sent[i].id = t /\ out.sent[i].to = "all"
\* the last step broadcast a torrent-update for t, or sent an
\* 'initial-torrents' message while t was in the registry
Relisted(t) ==
    \/ \E i \in 1..Len(out.sent) :
          out.sent[i].type = "torrent-update" /\ out.sent[i].id = t
    \/ /\ \E i \in 1..Len(out.sent) : out.sent[i].type = "initial-torrents"
       /\ t \in activeTorrents

\* C33: after the server has broadcast 'torrent-removed' for a torrent, it
\* never again broadcasts a 'torrent-update' for it or lists it in an
\* 'initial-torrents' message; stated for the first of the later steps: the
\* step that follows the broadcast of the removal does neither.
C33_RemovedStaysRemoved ==
    [][\A t \in Ids : Removed(t) => ~Relisted(t)']_vars

\* C37: the client flag isConnected is true only while the client's current
\* main WebSocket is open: the events of a superseded socket and of the
\* connection-test socket never leave the flag inconsistent with the state
\* of the current socket.
C37_FlagMatchesSocket ==
    app.isConnected <=> (app.ws = "open")

\* the statuses during which the periodic status timer of a torrent runs
TimerStatuses == {"starting", "downloading", "seeding"}

\* C39: a torrent's periodic status timer runs only while its status is
\* starting, downloading or seeding: whenever the status is completed,
\* error, stopping or stopped its updateTimer is null, and no timer keeps
\* running for a torrentId that is no longer in the registry.
C39_TimerOnlyWhileActive ==
    \A t \in Ids :
       /\ status[t].status \in {"completed", "error", "stopping", "stopped"}
             => ~updateTimer[t]
       /\ updateTimer[t]
             => (t \in activeTorrents /\ status[t].status \in TimerStatuses)
\* a torrent whose timer had reported it seeding has completed, and its
\* timer is cleared
C39_Witness ==
    /\ out.op = "done"
    /\ status[out.id].status = "completed"
    /\ status[out.id].downloaded = torrent[out.id].pieces
    /\ ~updateTimer[out.id]
    /\ out.id \in activeTorrents

\* C38: the client's Start action on a torrent it already lists sends a
\* start-torrent message whose magnet field passes the server's magnet
\* validation, so the server starts the torrent instead of replying with an
\* error.
C38_ClientStartIsAccepted ==
    [][\A c \in Clients, t \in Ids :
          ClientStartTorrent(c, t)
             => /\ validateMagnet(startMagnet(clientEntry(t))).accepted
                /\ out'.ret = "started"
                /\ \A i \in 1..Len(out'.sent) : out'.sent[i].type # "error"]_vars

\* q is the beginning of the sequence r
IsPrefix(q, r) == Len(q) <= Len(r) /\ SubSeq(r, 1, Len(q)) = q

\* what the handler may leave at the front of the queue when the request
\* that follows the loop of sendPendingMessages throws
Requeued == {<<>>, <<"get-torrents">>}

\* C35: the messages queued while the socket is not open are sent after the
\* next open, each once and in the order of their queueing.  Outside the
\* loop of sendPendingMessages no queued message leaves the queue or changes
\* its place, and a message queued while the socket is not open goes behind
\* those already queued.  A turn of the loop, which runs on the open socket
\* only, either gives the first queued message to ws.send and takes it, and
\* nothing else, off the queue, or (ws.send has thrown) sends nothing and
\* leaves the queue as it was.
C35_QueuedSentOnceInOrder ==
    [][ /\ app.flushing => app.ws = "open"
        /\ ~app.flushing =>
              /\ \E k \in 0..1 :
                    IsPrefix(app.pendingMessages,
                             SubSeq(app'.pendingMessages, k + 1,
                                    Len(app'.pendingMessages)))
              /\ ~(app.isConnected /\ app.ws = "open") =>
                    /\ IsPrefix(app.pendingMessages, app'.pendingMessages)
                    /\ out'.wire = <<>> \/ out'.op = "ws-open"
              /\ (out'.op = "ws-open" /\ app.pendingMessages # <<>>) =>
                    /\ app'.flushing
                    /\ out'.wire = <<>>
        /\ app.flushing =>
              \/ /\ out'.wire = <<>>
                 /\ app'.pendingMessages = app.pendingMessages
                 /\ app'.flushing
              \/ /\ out'.wire # <<>>
                 /\ Head(out'.wire) = Head(app.pendingMessages)
                 /\ \A i \in 2..Len(out'.wire) : out'.wire[i] = "get-torrents"
                 /\ Len(out'.wire) <= 2
                 /\ \E pre \in Requeued :
                       app'.pendingMessages = pre \o Tail(app.pendingMessages)
                 /\ app'.flushing <=> Tail(app.pendingMessages) # <<>>
      ]_vars

\* C35 witness: of two different messages queued, the loop has sent the one
\* queued first and still holds the one queued second
C35_Witness ==
    /\ out.op = "flush"
    /\ out.wire = <<"start-torrent">>
    /\ app.pendingMessages = <<"start-torrent-fresh">>
    /\ app.flushing

\* C36: sendPendingMessages terminates: once the onopen handler has entered
\* the loop, the loop comes to its end
C36_FlushTerminates == app.flushing ~> ~app.flushing

\* C34: while the client stays connected and the user does nothing more, a
\* torrent the client lists and the server has had in its registry and has
\* dropped from it leaves the client's map
C34_ClientDropsUnregistered ==
    \A t \in Ids :
       (t \in app.torrents /\ t < nextId /\ t \notin activeTorrents)
          ~> (t \notin app.torrents \/ app.ws # "open"
                \/ out.op \in {"send", "stop-click"})


============================================================================
